---- MODULE Spec2Model ----
(***************************************************************************)
(* State-machine model of the expense tracker in src/app.py (SQLite        *)
(* branch, USE_POSTGRES = FALSE): the users / expenses / budgets tables,   *)
(* the per-client Flask session, and one action per route handler.         *)
(* Text values (usernames, passwords, dates, form amounts) are sequences   *)
(* of one-character strings so that strip(), len(), substr() and float()   *)
(* are computed, not assumed.                                              *)
(***************************************************************************)
EXTENDS Integers, Sequences, FiniteSets, TLC

\* ------------------------------------------------------------------ bounds
\* Largest expense id the AUTOINCREMENT counter may hand out in the model.
MaxExpenseId == 2

\* ------------------------------------------------------- program constants
\* register(): "if len(password) < 6"
MinPasswordLen == 6

\* ------------------------------------------------------------ input domains
Clients == {"c1"}
\* worker threads that may serve POST /register at the same time
Requests == {"r1", "r2"}

Str1(a) == <<a>>
Str2(a, b) == <<a, b>>
Rep(ch, n) == [i \in 1..n |-> ch]

UsernameInputs == {Str1("a"), Str2(" ", "a"), Str1("b")}
PasswordInputs == {Rep("p", 5), Rep("p", 6)}
Salts == {"s1"}
\* the wider credentials of the specifications of the account handlers alone
AuthUsernameInputs == UsernameInputs \cup {Str2("a", " "), Str1(" ")}
AuthPasswordInputs == PasswordInputs \cup {Rep("q", 7)}

Date1 == <<"2", "0", "2", "4", "-", "0", "1", "-", "0", "5">>
Date2 == <<"2", "0", "2", "4", "-", "0", "3", "-", "1", "5">>
ExpenseIds == 1..MaxExpenseId

NoText == <<>>
Month01 == <<"0", "1">>
Month03 == <<"0", "3">>
Year2024 == <<"2", "0", "2", "4">>
FilterInputs ==
    { [month |-> NoText, year |-> NoText, start_date |-> NoText, end_date |-> NoText],
      [month |-> Month01, year |-> Year2024, start_date |-> NoText, end_date |-> NoText],
      [month |-> Month03, year |-> NoText, start_date |-> Date2, end_date |-> NoText],
      [month |-> NoText, year |-> NoText, start_date |-> NoText, end_date |-> Date1] }

Form(date, category, description, amount) ==
    [date |-> date, category |-> category, description |-> description,
     amount |-> amount]

\* form fields date, category, description, amount of POST /add
AddForms == {Form(Date1, "Food", "lunch", Str1("2")),
             Form(Date2, "Rent", "flat", Str2("-", "1")),
             Form(Date1, "Food", "lunch", Str1("x"))}
\* form fields of POST /edit/<id> (a date field, if sent, is not read)
EditForms == {Form(Date2, "Rent", "flat", Str2("-", "1")),
              Form(Date1, "Food", "lunch", Str1("x"))}

\* ----------------------------------------------------------------- state
\* users, expenses, budgets: the three tables; nextExpenseId: the AUTOINCREMENT
\* counter of expenses; session: each client's Flask session; resp: the response
\* to the latest request; reg: where each worker serving POST /register stands.
VARIABLES users, expenses, budgets, nextExpenseId, session, resp, reg

vars == <<users, expenses, budgets, nextExpenseId, session, resp, reg>>

\* ------------------------------------------------------------ text helpers
IsSpace(ch) == ch = " "

RECURSIVE LStrip(_)
LStrip(s) == IF s # <<>> /\ IsSpace(Head(s)) THEN LStrip(Tail(s)) ELSE s

RECURSIVE RStrip(_)
RStrip(s) ==
    IF s # <<>> /\ IsSpace(s[Len(s)]) THEN RStrip(SubSeq(s, 1, Len(s) - 1)) ELSE s

\* str.strip()
Strip(s) == RStrip(LStrip(s))

Digits == {"0", "1", "2", "3", "4", "5", "6", "7", "8", "9"}

DigitVal(ch) ==
    CASE ch = "0" -> 0 [] ch = "1" -> 1 [] ch = "2" -> 2 [] ch = "3" -> 3
      [] ch = "4" -> 4 [] ch = "5" -> 5 [] ch = "6" -> 6 [] ch = "7" -> 7
      [] ch = "8" -> 8 [] ch = "9" -> 9

\* Code point order of the characters that occur in dates.
CharOrd(ch) == IF ch = "-" THEN 0 ELSE 1 + DigitVal(ch)

RECURSIVE StrLeq(_, _)
\* s <= t for TEXT values (lexicographic by character)
StrLeq(s, t) ==
    IF s = <<>> THEN TRUE
    ELSE IF t = <<>> THEN FALSE
    ELSE IF CharOrd(Head(s)) < CharOrd(Head(t)) THEN TRUE
    ELSE IF CharOrd(Head(s)) > CharOrd(Head(t)) THEN FALSE
    ELSE StrLeq(Tail(s), Tail(t))

RECURSIVE DigitsVal(_, _)
DigitsVal(s, acc) ==
    IF s = <<>> THEN acc ELSE DigitsVal(Tail(s), 10 * acc + DigitVal(Head(s)))

AllDigits(s) == s # <<>> /\ \A i \in 1..Len(s) : s[i] \in Digits

\* float(text): [ok |-> FALSE] stands for the ValueError Python raises.
ParseFloat(s) ==
    IF s # <<>> /\ Head(s) \in {"-", "+"} /\ AllDigits(Tail(s))
    THEN [ok |-> TRUE,
          val |-> IF Head(s) = "-" THEN 0 - DigitsVal(Tail(s), 0)
                                   ELSE DigitsVal(Tail(s), 0)]
    ELSE IF AllDigits(s) THEN [ok |-> TRUE, val |-> DigitsVal(s, 0)]
    ELSE [ok |-> FALSE, val |-> 0]

\* ------------------------------------------------------ werkzeug.security
Digest(salt, password) == <<"digest", salt, password>>

\* generate_password_hash(password): one hash per salt
PasswordHashes(password) ==
    {[salt |-> s, digest |-> Digest(s, password)] : s \in Salts}

NoHash == [salt |-> "", digest |-> <<>>]

check_password_hash(hashed, password) ==
    hashed.digest = Digest(hashed.salt, password)

\* ------------------------------------------------------------ the session
EmptySession == [logged |-> FALSE, user_id |-> 0, username |-> NoText, is_admin |-> 0]

\* the guard with its test dropped
HasUserIdAlways(c) == TRUE

\* "user_id" in session
HasUserId(c) == session[c].logged

\* ------------------------------------------------------------- responses
Response(op, id, code, page, flash, db, body) ==
    [op |-> op, id |-> id, code |-> code, page |-> page, flash |-> flash,
     db |-> db, body |-> body]

NoBody == <<>>

\* login_required: the wrapped handler is not called without a session
LoginRedirect(op, id) ==
    Response(op, id, 302, "login", "Please login first.", FALSE, NoBody)

\* -------------------------------------------------------------- the store
MaxOf(S) == CHOOSE m \in S : \A n \in S : n <= m

\* SELECT ... FROM users WHERE username=?
UsersNamed(tbl, username) == {u \in tbl : u.username = username}

\* the duplicate check never finding a row
UsernameTakenNever(tbl, username) == FALSE

\* "if cur.fetchone():" after the SELECT of register()
UsernameTaken(tbl, username) == UsersNamed(tbl, username) # {}

\* the INSERT against a users table declared without UNIQUE
InsertUserNoUnique(tbl, username, hashed) ==
    [ok |-> TRUE,
     users |-> tbl \cup {[id |-> 1 + Cardinality(tbl), username |-> username,
                          password |-> hashed, is_admin |-> 0]}]

\* INSERT INTO users (username, password): id AUTOINCREMENT, is_admin DEFAULT 0,
\* username UNIQUE (ok = FALSE stands for sqlite3.IntegrityError)
InsertUser(tbl, username, hashed) ==
    IF UsersNamed(tbl, username) # {}
    THEN [ok |-> FALSE, users |-> tbl]
    ELSE [ok |-> TRUE,
          users |-> tbl \cup {[id |-> IF tbl = {} THEN 1
                                      ELSE 1 + MaxOf({u.id : u \in tbl}),
                               username |-> username,
                               password |-> hashed,
                               is_admin |-> 0]}]

Idle == [pc |-> "idle", username |-> NoText, password |-> NoText, hashed |-> NoHash]

\* the length test accepting one character less
WeakPasswordOffByOne(password) == Len(password) < MinPasswordLen - 1

\* "if len(password) < 6:"
WeakPassword(password) == Len(password) < MinPasswordLen

\* ------------------------------------------------------------------- init
Init ==
    /\ users = {}
    /\ expenses = {}
    /\ budgets = {}
    /\ nextExpenseId = 1
    /\ session = [c \in Clients |-> EmptySession]
    /\ resp = Response("init", 0, 0, "", "", FALSE, NoBody)
    /\ reg = [r \in Requests |-> Idle]

\* --------------------------------------------------------------- register
Register(c, method, username, password) ==
    LET name == Strip(username) IN
    /\ UNCHANGED <<expenses, budgets, nextExpenseId, session, reg>>
    /\ IF method # "POST"
       THEN /\ resp' = Response("register", 0, 200, "register.html", "", FALSE, NoBody)
            /\ UNCHANGED users
       ELSE IF WeakPassword(password)
       THEN /\ resp' = Response("register", 0, 200, "register.html",
                                "Password must be at least 6 characters.", FALSE, NoBody)
            /\ UNCHANGED users
       ELSE IF UsernameTaken(users, name)
       THEN /\ resp' = Response("register", 0, 200, "register.html",
                                "Username already exists.", TRUE, NoBody)
            /\ UNCHANGED users
       ELSE \E hashed \in PasswordHashes(password) :
              LET ins == InsertUser(users, name, hashed) IN
              /\ users' = ins.users
              /\ resp' = IF ins.ok
                         THEN Response("register", 0, 302, "login",
                                       "Account created successfully!", TRUE, NoBody)
                         ELSE Response("register", 0, 500, "error", "", TRUE, NoBody)

\* ------------------------------------------------------------ login/logout
\* cur.fetchone() after SELECT * FROM users WHERE username=? followed by
\* "not user or not check_password_hash(user["password"], password)"
LoginOutcome(tbl, username, password) ==
    LET found == UsersNamed(tbl, username) IN
    IF found = {} THEN [ok |-> FALSE, session |-> EmptySession]
    ELSE LET user == CHOOSE u \in found : TRUE IN
         IF ~check_password_hash(user.password, password)
         THEN [ok |-> FALSE, session |-> EmptySession]
         ELSE [ok |-> TRUE,
               session |-> [logged |-> TRUE, user_id |-> user.id,
                            username |-> user.username, is_admin |-> user.is_admin]]

Login(c, method, username, password) ==
    /\ UNCHANGED <<users, expenses, budgets, nextExpenseId, reg>>
    /\ IF method # "POST"
       THEN /\ resp' = Response("login", 0, 200, "login.html", "", FALSE, NoBody)
            /\ UNCHANGED session
       ELSE LET out == LoginOutcome(users, username, password) IN
            IF ~out.ok
            THEN /\ resp' = Response("login", 0, 200, "login.html",
                                     "Invalid credentials", TRUE, NoBody)
                 /\ UNCHANGED session
            ELSE /\ session' = [session EXCEPT ![c] = out.session]
                 /\ resp' = Response("login", 0, 302, "index", "", TRUE, NoBody)

Logout(c) ==
    /\ session' = [session EXCEPT ![c] = EmptySession]
    /\ resp' = Response("logout", 0, 302, "login", "", FALSE, NoBody)
    /\ UNCHANGED <<users, expenses, budgets, nextExpenseId, reg>>

\* -------------------------------------------------------------- dashboard
RECURSIVE SumAmounts(_)
SumAmounts(rows) ==
    IF rows = {} THEN 0
    ELSE LET r == CHOOSE x \in rows : TRUE IN r.amount + SumAmounts(rows \ {r})

\* the dashboard query without its user_id=? condition
ListExpensesAllUsers(tbl, uid, f) ==
    {e \in tbl :
        /\ f.month # NoText => SubSeq(e.date, 6, 7) = f.month
        /\ f.year # NoText => SubSeq(e.date, 1, 4) = f.year
        /\ f.start_date # NoText => StrLeq(f.start_date, e.date)
        /\ f.end_date # NoText => StrLeq(e.date, f.end_date)}

\* SELECT * FROM expenses WHERE user_id=? [AND substr(date,6,2)=?]
\* [AND substr(date,1,4)=?] [AND date >= ?] [AND date <= ?]
ListExpenses(tbl, uid, f) ==
    {e \in tbl :
        /\ e.user_id = uid
        /\ f.month # NoText => SubSeq(e.date, 6, 7) = f.month
        /\ f.year # NoText => SubSeq(e.date, 1, 4) = f.year
        /\ f.start_date # NoText => StrLeq(f.start_date, e.date)
        /\ f.end_date # NoText => StrLeq(e.date, f.end_date)}

CategorySummary(rows) ==
    [cat \in {e.category : e \in rows} |->
        SumAmounts({e \in rows : e.category = cat})]

\* date_key = str(e["date"])[:7]
DateKey(date) == SubSeq(date, 1, 7)

MonthlySummary(rows) ==
    [k \in {DateKey(e.date) : e \in rows} |->
        SumAmounts({e \in rows : DateKey(e.date) = k})]

\* SELECT amount FROM budgets WHERE user_id=? AND month=? AND year=?,
\* run only when both month and year are given; <<>> stands for None
BudgetFor(tbl, uid, f) ==
    IF f.month # NoText /\ f.year # NoText
    THEN LET found == {b \in tbl : b.user_id = uid /\ b.month = f.month
                                   /\ b.year = f.year} IN
         IF found = {} THEN <<>> ELSE <<(CHOOSE b \in found : TRUE).amount>>
    ELSE <<>>

Dashboard(etbl, btbl, uid, f) ==
    LET rows == ListExpenses(etbl, uid, f) IN
    [expenses |-> rows,
     total |-> SumAmounts(rows),
     category_summary |-> CategorySummary(rows),
     monthly_summary |-> MonthlySummary(rows),
     selected |-> f,
     budget |-> BudgetFor(btbl, uid, f)]

Index(c, f) ==
    /\ UNCHANGED <<users, expenses, budgets, nextExpenseId, session, reg>>
    /\ IF ~HasUserId(c)
       THEN resp' = LoginRedirect("index", 0)
       ELSE resp' = Response("index", 0, 200, "index.html", "", TRUE,
                             Dashboard(expenses, budgets, session[c].user_id, f))

\* ------------------------------------------------------ add / edit / delete
AddExpense(c, method, form) ==
    /\ UNCHANGED <<users, budgets, session, reg>>
    /\ IF ~HasUserId(c)
       THEN /\ resp' = LoginRedirect("add_expense", 0)
            /\ UNCHANGED <<expenses, nextExpenseId>>
       ELSE IF method # "POST"
       THEN /\ resp' = Response("add_expense", 0, 200, "add_expense.html", "",
                                FALSE, NoBody)
            /\ UNCHANGED <<expenses, nextExpenseId>>
       ELSE LET amount == ParseFloat(form.amount) IN
            IF ~amount.ok
            THEN /\ resp' = Response("add_expense", 0, 500, "error", "", TRUE, NoBody)
                 /\ UNCHANGED <<expenses, nextExpenseId>>
            ELSE /\ nextExpenseId <= MaxExpenseId
                 /\ expenses' = expenses \cup
                        {[id |-> nextExpenseId,
                          user_id |-> session[c].user_id,
                          date |-> form.date,
                          category |-> form.category,
                          description |-> form.description,
                          amount |-> amount.val]}
                 /\ nextExpenseId' = nextExpenseId + 1
                 /\ resp' = Response("add_expense", 0, 302, "index", "", TRUE, NoBody)

\* the ownership lookup by id alone
OwnedExpenseAnyUser(tbl, id, uid) == {e \in tbl : e.id = id}

\* SELECT * FROM expenses WHERE id=? AND user_id=?
OwnedExpense(tbl, id, uid) == {e \in tbl : e.id = id /\ e.user_id = uid}

\* UPDATE expenses SET category=?, description=?, amount=? WHERE id=? AND user_id=?
UpdateExpense(tbl, id, uid, category, description, amount) ==
    {IF e.id = id /\ e.user_id = uid
     THEN [e EXCEPT !.category = category, !.description = description,
                    !.amount = amount]
     ELSE e : e \in tbl}

EditExpense(c, id, method, form) ==
    /\ UNCHANGED <<users, budgets, nextExpenseId, session, reg>>
    /\ IF ~HasUserId(c)
       THEN /\ resp' = LoginRedirect("edit_expense", id)
            /\ UNCHANGED expenses
       ELSE LET found == OwnedExpense(expenses, id, session[c].user_id) IN
            IF found = {}
            THEN /\ resp' = Response("edit_expense", id, 403, "Unauthorized", "",
                                     TRUE, NoBody)
                 /\ UNCHANGED expenses
            ELSE IF method = "POST"
            THEN LET amount == ParseFloat(form.amount) IN
                 IF ~amount.ok
                 THEN /\ resp' = Response("edit_expense", id, 500, "error", "",
                                          TRUE, NoBody)
                      /\ UNCHANGED expenses
                 ELSE /\ expenses' = UpdateExpense(expenses, id, session[c].user_id,
                                                   form.category, form.description,
                                                   amount.val)
                      /\ resp' = Response("edit_expense", id, 302, "index", "",
                                          TRUE, NoBody)
            ELSE /\ resp' = Response("edit_expense", id, 200, "edit_expense.html", "",
                                     TRUE, CHOOSE e \in found : TRUE)
                 /\ UNCHANGED expenses

\* the DELETE by id alone
DeleteExpenseAnyUser(tbl, id, uid) == {e \in tbl : e.id # id}

\* DELETE FROM expenses WHERE id=? AND user_id=?
DeleteExpense(tbl, id, uid) == {e \in tbl : ~(e.id = id /\ e.user_id = uid)}

Delete(c, id) ==
    /\ UNCHANGED <<users, budgets, nextExpenseId, session, reg>>
    /\ IF ~HasUserId(c)
       THEN /\ resp' = LoginRedirect("delete", id)
            /\ UNCHANGED expenses
       ELSE /\ expenses' = DeleteExpense(expenses, id, session[c].user_id)
            /\ resp' = Response("delete", id, 302, "index", "", TRUE, NoBody)

\* ----------------------------------------------------------------- export
CsvHeader == <<"Date", "Category", "Description", "Amount">>

\* SELECT date, category, description, amount FROM expenses WHERE user_id=?
ExportRows(tbl, uid) == {e \in tbl : e.user_id = uid}

RECURSIVE CsvLines(_)
\* one writer.writerow per fetched row, rows taken in rowid order
CsvLines(rows) ==
    IF rows = {} THEN <<>>
    ELSE LET r == CHOOSE x \in rows : \A y \in rows : x.id <= y.id IN
         <<<<r.date, r.category, r.description, r.amount>>>> \o CsvLines(rows \ {r})

\* the export without its header row
CsvBodyNoHeader(tbl, uid) == CsvLines(ExportRows(tbl, uid))

CsvBody(tbl, uid) == <<CsvHeader>> \o CsvLines(ExportRows(tbl, uid))

ExportCsv(c) ==
    /\ UNCHANGED <<users, expenses, budgets, nextExpenseId, session, reg>>
    /\ IF ~HasUserId(c)
       THEN resp' = LoginRedirect("export_csv", 0)
       ELSE resp' = Response("export_csv", 0, 200, "expenses.csv", "", TRUE,
                             CsvBody(expenses, session[c].user_id))

\* ------------------------------------------------------------------- next
\* a GET request carries no form
NoForm == Form(NoText, "", "", NoText)

Next ==
    \/ \E c \in Clients : Register(c, "GET", NoText, NoText)
    \/ \E c \in Clients, u \in UsernameInputs, p \in PasswordInputs :
           Register(c, "POST", u, p)
    \/ \E c \in Clients : Login(c, "GET", NoText, NoText)
    \/ \E c \in Clients, u \in UsernameInputs, p \in PasswordInputs :
           Login(c, "POST", u, p)
    \/ \E c \in Clients : Logout(c)
    \/ \E c \in Clients, f \in FilterInputs : Index(c, f)
    \/ \E c \in Clients : AddExpense(c, "GET", NoForm)
    \/ \E c \in Clients, form \in AddForms : AddExpense(c, "POST", form)
    \/ \E c \in Clients, id \in ExpenseIds : EditExpense(c, id, "GET", NoForm)
    \/ \E c \in Clients, id \in ExpenseIds, form \in EditForms :
           EditExpense(c, id, "POST", form)
    \/ \E c \in Clients, id \in ExpenseIds : Delete(c, id)
    \/ \E c \in Clients : ExportCsv(c)

Spec == Init /\ [][Next]_vars

\* The account handlers alone (they neither read nor write expenses and
\* budgets), with the wider usernames and passwords.
NextAuth ==
    \/ \E c \in Clients : Register(c, "GET", NoText, NoText)
    \/ \E c \in Clients, u \in AuthUsernameInputs, p \in AuthPasswordInputs :
           Register(c, "POST", u, p)
    \/ \E c \in Clients : Login(c, "GET", NoText, NoText)
    \/ \E c \in Clients, u \in AuthUsernameInputs, p \in AuthPasswordInputs :
           Login(c, "POST", u, p)
    \/ \E c \in Clients : Logout(c)

SpecAuth == Init /\ [][NextAuth]_vars

\* ------------------------------------------- register, statement by statement
\* The same handler as Register, one step per database statement, so that
\* several workers can interleave between the SELECT and the INSERT.
RegBegin(r, username, password) ==
    /\ reg[r].pc = "idle"
    /\ UNCHANGED <<users, expenses, budgets, nextExpenseId, session>>
    /\ IF WeakPassword(password)
       THEN /\ resp' = Response("register", 0, 200, "register.html",
                                "Password must be at least 6 characters.", FALSE, NoBody)
            /\ UNCHANGED reg
       ELSE /\ reg' = [reg EXCEPT ![r] = [pc |-> "select", username |-> Strip(username),
                                          password |-> password, hashed |-> NoHash]]
            /\ UNCHANGED resp

RegSelect(r) ==
    /\ reg[r].pc = "select"
    /\ UNCHANGED <<users, expenses, budgets, nextExpenseId, session>>
    /\ IF UsernameTaken(users, reg[r].username)
       THEN /\ resp' = Response("register", 0, 200, "register.html",
                                "Username already exists.", TRUE, NoBody)
            /\ reg' = [reg EXCEPT ![r] = Idle]
       ELSE /\ \E hashed \in PasswordHashes(reg[r].password) :
                 reg' = [reg EXCEPT ![r].pc = "insert", ![r].hashed = hashed]
            /\ UNCHANGED resp

RegInsert(r) ==
    /\ reg[r].pc = "insert"
    /\ UNCHANGED <<expenses, budgets, nextExpenseId, session>>
    /\ LET ins == InsertUser(users, reg[r].username, reg[r].hashed) IN
       /\ users' = ins.users
       /\ resp' = IF ins.ok
                  THEN Response("register", 0, 302, "login",
                                "Account created successfully!", TRUE, NoBody)
                  ELSE Response("register", 0, 500, "error", "", TRUE, NoBody)
    /\ reg' = [reg EXCEPT ![r] = Idle]

NextConc ==
    \/ \E r \in Requests, u \in AuthUsernameInputs, p \in AuthPasswordInputs :
           RegBegin(r, u, p)
    \/ \E r \in Requests : RegSelect(r)
    \/ \E r \in Requests : RegInsert(r)

SpecConc == Init /\ [][NextConc]_vars

\* ================================================================ properties
\* The rows of a table that belong to one user.
RowsOf(tbl, uid) == {r \in tbl : r.user_id = uid}

StoreUnchanged == UNCHANGED <<users, expenses, budgets, nextExpenseId>>

\* Steps of the handlers, recognised by the response they leave.
RegisterPost(c, u, p) == resp'.op = "register" /\ Register(c, "POST", u, p)

LoginStep(c) ==
    /\ resp'.op = "login"
    /\ \/ Login(c, "GET", NoText, NoText)
       \/ \E u \in UsernameInputs, p \in PasswordInputs : Login(c, "POST", u, p)

LogoutStep(c) == resp'.op = "logout" /\ Logout(c)

IndexStep(c, f) == resp'.op = "index" /\ Index(c, f)

AddStep(c) ==
    /\ resp'.op = "add_expense"
    /\ \/ AddExpense(c, "GET", NoForm)
       \/ \E form \in AddForms : AddExpense(c, "POST", form)

EditStep(c, id) ==
    /\ resp'.op = "edit_expense"
    /\ resp'.id = id
    /\ \/ EditExpense(c, id, "GET", NoForm)
       \/ \E form \in EditForms : EditExpense(c, id, "POST", form)

DeleteStep(c, id) == resp'.op = "delete" /\ resp'.id = id /\ Delete(c, id)

ExportStep(c) == resp'.op = "export_csv" /\ ExportCsv(c)

\* A step of one of the handlers wrapped by @login_required.
GuardedStep(c) ==
    \/ \E f \in FilterInputs : IndexStep(c, f)
    \/ AddStep(c)
    \/ \E id \in ExpenseIds : EditStep(c, id)
    \/ \E id \in ExpenseIds : DeleteStep(c, id)
    \/ ExportStep(c)

\* Client c is logged in and expense id exists but belongs to somebody else.
ForeignExpense(c, id) ==
    /\ session[c].logged
    /\ \E e \in expenses : e.id = id /\ e.user_id # session[c].user_id

\* ---------------------------------------------------------------------- C1
\* C1 as stated: an edit or a delete of an expense owned by another user is
\* answered with 403 and leaves that expense as it was.
C1_ForeignEditDeleteDenied ==
    [][\A c \in Clients, id \in ExpenseIds :
          (/\ ForeignExpense(c, id)
           /\ EditStep(c, id) \/ DeleteStep(c, id))
          => /\ resp'.code = 403
             /\ \A e \in expenses : e.id = id => e \in expenses']_vars

\* C1 amended: the edit of an expense owned by another user is answered with
\* 403; the delete of one is answered with the redirect to the dashboard;
\* both leave the expenses table as it was.
C1_ForeignEditDeniedDeleteNoop ==
    [][\A c \in Clients, id \in ExpenseIds :
          ForeignExpense(c, id) =>
            /\ EditStep(c, id)
                  => /\ resp'.code = 403
                     /\ resp'.page = "Unauthorized"
                     /\ expenses' = expenses
            /\ DeleteStep(c, id)
                  => /\ resp'.code = 302
                     /\ resp'.page = "index"
                     /\ expenses' = expenses]_vars

\* An edit of another user's expense has just been refused.
C1_Witness ==
    /\ resp.op = "edit_expense"
    /\ resp.code = 403
    /\ \E c \in Clients : ForeignExpense(c, resp.id)

\* ---------------------------------------------------------------------- C2
\* C2: a negative amount is rejected by POST /add and POST /edit/<id> with the
\* store unchanged, and no stored expense or budget amount is negative.
C2_NegativeAmountRejected ==
    /\ [](/\ \A e \in expenses : e.amount >= 0
          /\ \A b \in budgets : b.amount >= 0)
    /\ [][\A c \in Clients :
            session[c].logged =>
              /\ \A form \in AddForms :
                   (/\ ParseFloat(form.amount).ok
                    /\ ParseFloat(form.amount).val < 0
                    /\ resp'.op = "add_expense"
                    /\ AddExpense(c, "POST", form))
                   => StoreUnchanged /\ resp'.code # 302
              /\ \A id \in ExpenseIds, form \in EditForms :
                   (/\ ParseFloat(form.amount).ok
                    /\ ParseFloat(form.amount).val < 0
                    /\ \E e \in expenses :
                          e.id = id /\ e.user_id = session[c].user_id
                    /\ resp'.op = "edit_expense"
                    /\ EditExpense(c, id, "POST", form))
                   => StoreUnchanged /\ resp'.code # 302]_vars

\* ---------------------------------------------------------------------- C3
\* C3: a client's session is established by a successful login, cleared by a
\* logout and changed by nothing else; a guarded handler touches the store
\* only for a client whose session is established and otherwise redirects to
\* login with the store unchanged.
C3_GuardedOnlyWithSession ==
    [][\A c \in Clients :
          /\ (LoginStep(c) /\ resp'.code = 302) => session'[c].logged
          /\ LogoutStep(c) => ~session'[c].logged
          /\ session'[c] # session[c]
                => LogoutStep(c) \/ (LoginStep(c) /\ resp'.code = 302)
          /\ (GuardedStep(c) /\ ~session[c].logged)
                => /\ resp'.code = 302
                   /\ resp'.page = "login"
                   /\ resp'.flash = "Please login first."
                   /\ ~resp'.db
                   /\ StoreUnchanged
          /\ (GuardedStep(c) /\ (resp'.db \/ ~StoreUnchanged))
                => session[c].logged]_vars

\* A guarded request has just been redirected to login for a client that was
\* logged in earlier (it created an expense) and has logged out since.
C3_Witness ==
    /\ resp.flash = "Please login first."
    /\ nextExpenseId > 1
    /\ \A c \in Clients : ~session[c].logged

\* ---------------------------------------------------------------------- C4
\* C4: a POST /register whose trimmed username is already taken is answered
\* with the form and a notice, and the users table (rows, password hashes,
\* role flags) is left as it was.
C4_DuplicateUsernameRejected ==
    [][\A c \in Clients, u \in AuthUsernameInputs, p \in AuthPasswordInputs :
          (/\ \E row \in users : row.username = Strip(u)
           /\ RegisterPost(c, u, p))
          => /\ users' = users
             /\ resp'.code = 200
             /\ resp'.page = "register.html"
             /\ resp'.flash \in {"Username already exists.",
                                 "Password must be at least 6 characters."}]_vars

\* A registration has just been refused because the username is taken.
C4_Witness ==
    /\ resp.op = "register"
    /\ resp.flash = "Username already exists."
    /\ users # {}

\* ---------------------------------------------------------------------- C5
\* C5: a POST /register with a password of fewer than 6 characters is answered
\* with the form and the password notice, whatever the username; the users
\* table and the session are left as they were.
C5_ShortPasswordRejected ==
    [][\A c \in Clients, u \in AuthUsernameInputs, p \in AuthPasswordInputs :
          (Len(p) < 6 /\ RegisterPost(c, u, p))
          => /\ users' = users
             /\ session' = session
             /\ resp'.code = 200
             /\ resp'.page = "register.html"
             /\ resp'.flash = "Password must be at least 6 characters."]_vars

\* A registration has just been refused because the password is too short.
C5_Witness ==
    /\ resp.op = "register"
    /\ resp.flash = "Password must be at least 6 characters."

\* ---------------------------------------------------------------------- C6
\* C6: once POST /register with username u and a password p of at least 6
\* characters has created an account, a login with the same u and p succeeds
\* and its session carries the id, username and role flag of that account.
C6_RegisterThenLogin ==
    [][\A c \in Clients, u \in AuthUsernameInputs, p \in AuthPasswordInputs :
          (/\ Len(p) >= 6
           /\ RegisterPost(c, u, p)
           /\ resp'.code = 302)
          => LET out == LoginOutcome(users', u, p) IN
             /\ out.ok
             /\ \E row \in users' \ users :
                   /\ out.session.user_id = row.id
                   /\ out.session.username = row.username
                   /\ out.session.is_admin = row.is_admin]_vars

\* ---------------------------------------------------------------------- C7
\* C7: after a delete by a logged-in client, the same delete again changes no
\* row and is answered with the same redirect to the dashboard; a delete of
\* an id that matches no row of the caller changes no row.
C7_DeleteIdempotent ==
    [][\A c \in Clients, id \in ExpenseIds :
          (session[c].logged /\ DeleteStep(c, id))
          => /\ resp'.code = 302
             /\ resp'.page = "index"
             /\ DeleteExpense(expenses', id, session'[c].user_id) = expenses'
             /\ (\A e \in expenses : ~(e.id = id /\ e.user_id = session[c].user_id))
                   => expenses' = expenses]_vars

\* A delete has just removed a row: its id was handed out and is gone.
C7_Witness ==
    /\ resp.op = "delete"
    /\ resp.code = 302
    /\ resp.id < nextExpenseId
    /\ \A e \in expenses : e.id # resp.id

\* ---------------------------------------------------------------------- C8
\* C8 as stated: the export for a logged-in caller without expenses is a
\* redirect with a notice, and a CSV attachment is produced only for a caller
\* who owns at least one expense.
C8_EmptyExportRedirects ==
    [][\A c \in Clients :
          (session[c].logged /\ ExportStep(c))
          => IF RowsOf(expenses, session[c].user_id) = {}
             THEN resp'.code = 302 /\ resp'.flash # ""
             ELSE /\ resp'.page = "expenses.csv"
                  /\ Len(resp'.body) =
                        1 + Cardinality(RowsOf(expenses, session[c].user_id))]_vars

\* C8 amended: the export for a logged-in caller is always a CSV attachment of
\* the header row followed by one row per owned expense; a caller without
\* expenses receives the header row alone.
C8_ExportAlwaysCsv ==
    [][\A c \in Clients :
          (session[c].logged /\ ExportStep(c))
          => /\ resp'.code = 200
             /\ resp'.page = "expenses.csv"
             /\ Len(resp'.body) = 1 + Cardinality(RowsOf(expenses, session[c].user_id))
             /\ resp'.body[1] = <<"Date", "Category", "Description", "Amount">>
             /\ \A i \in 2..Len(resp'.body) :
                   \E e \in RowsOf(expenses, session[c].user_id) :
                      resp'.body[i] = <<e.date, e.category, e.description, e.amount>>]_vars

\* A caller without expenses has just received a header-only CSV file.
C8_Witness ==
    /\ resp.op = "export_csv"
    /\ resp.page = "expenses.csv"
    /\ Len(resp.body) = 1
    /\ \E c \in Clients :
          session[c].logged /\ RowsOf(expenses, session[c].user_id) = {}

\* ---------------------------------------------------------------------- C9
\* C9: what the dashboard and the export return for a user is computed from
\* that user's rows alone, and an add, edit or delete by another user leaves
\* it as it was.
C9_NoCrossUserVisibility ==
    /\ [][\A c \in Clients :
            session[c].logged =>
              LET uid == session[c].user_id IN
              /\ \A f \in FilterInputs :
                    IndexStep(c, f) =>
                       resp'.body = Dashboard(RowsOf(expenses, uid),
                                              RowsOf(budgets, uid), uid, f)
              /\ ExportStep(c) => resp'.body = CsvBody(RowsOf(expenses, uid), uid)
              /\ (\/ AddStep(c)
                  \/ \E id \in ExpenseIds : EditStep(c, id)
                  \/ \E id \in ExpenseIds : DeleteStep(c, id))
                 => \A other \in users :
                       other.id # uid =>
                         /\ \A f \in FilterInputs :
                               Dashboard(expenses', budgets', other.id, f) =
                               Dashboard(expenses, budgets, other.id, f)
                         /\ CsvBody(expenses', other.id) =
                            CsvBody(expenses, other.id)]_vars

\* The dashboard has just been served to a user while another user also owns
\* an expense.
C9_Witness ==
    /\ resp.op = "index"
    /\ resp.code = 200
    /\ resp.body.expenses # {}
    /\ \E c \in Clients :
          /\ session[c].logged
          /\ \E e \in expenses : e.user_id # session[c].user_id

\* --------------------------------------------------------------------- C10
\* C10: however register requests interleave between their SELECT and their
\* INSERT, no two user rows share a username and a committed row is never
\* changed or removed.
C10_UniqueUsername ==
    /\ [](\A u1 \in users, u2 \in users : u1.username = u2.username => u1 = u2)
    /\ [][\A u \in users : u \in users']_vars

\* Two requests for the same username both passed the SELECT; one committed
\* its row and the INSERT of the other has just failed.
C10_Witness ==
    /\ resp.op = "register"
    /\ resp.code = 500
    /\ users # {}
====
